---- MODULE Spec2Model ----
(***************************************************************************)
(* Model of the DbmBot service: index build-or-load at startup             *)
(* (app/routes/chatengine.py), blob ingestion and the document combiner    *)
(* (app/services/docblob.py) and the /query request boundary (app/run.py). *)
(***************************************************************************)
EXTENDS Integers, Sequences, FiniteSets, TLC

\* ---------------------------------------------------------------- bounds
MaxBlobs == 2
MaxRequests == 2
MaxLen == 3

\* ------------------------------------------------------ program constants
max_workers == 4
UnknownTitle == "Unknown Title"

FileNames == {"a", "b"}

NullIndex == [kind |-> "null", docs |-> <<>>]
StoredIndex == [kind |-> "index", docs |-> <<[text |-> <<0>>, metadata |-> [file_name |-> "a"]]>>]

AbsentDir == [state |-> "absent", index |-> NullIndex]
EmptyDir == [state |-> "empty", index |-> NullIndex]
NonEmptyDir(ix) == [state |-> "nonempty", index |-> ix]

VARIABLES
    pc,            \* position of Tools.__init__ / _initialize_index
    dir,           \* the persistence directory "dbmindexstore"
    container,     \* the blob listing of the storage container
    startDir,      \* the persistence directory as found at process start
    fut,           \* state of every submitted process_blob future
    tempFiles,     \* temporary files that exist on the local disk
    completed,     \* futures in the order in which they finished
    k,             \* loop index (futures loop, combiner loop)
    documents,     \* list `documents` of load_and_enhance_documents
    combined_documents, \* dict of the combiner, in insertion order
    enhanced,      \* enhanced_documents returned to _initialize_index
    index,         \* Tools.index
    fetchCalls,    \* calls of load_and_enhance_documents
    combineCalls,  \* calls of combine_documents_by_file_name
    persistCalls,  \* calls of storage_context.persist
    steps,         \* build steps that completed, in order
    failedStep,    \* the step that raised, "none" otherwise
    req,           \* the /query requests
    history,       \* the chat store entry of key "user1"
    overlap        \* two query_document_tool calls were in flight together

vars == <<pc, dir, container, startDir, fut, tempFiles, completed, k, documents,
          combined_documents, enhanced, index, fetchCalls, combineCalls,
          persistCalls, steps, failedStep, req, history, overlap>>

startupVars == <<pc, dir, container, startDir, fut, tempFiles, completed, k, documents,
                 combined_documents, enhanced, index, fetchCalls, combineCalls,
                 persistCalls, steps, failedStep>>

serveVars == <<req, history, overlap>>

\* ------------------------------------------------------------ the combiner
\* document.metadata.get('file_name', 'Unknown Title')
MetadataGetFileName(metadata) ==
    IF "file_name" \in DOMAIN metadata THEN metadata.file_name ELSE UnknownTitle

\* variant: a later fragment replaces the accumulated text
CombineOne_Overwrite(acc, document) ==
    LET file_name == MetadataGetFileName(document.metadata)
        hit == {j \in 1..Len(acc) : acc[j].metadata.file_name = file_name}
    IN  IF hit = {}
        THEN Append(acc, [text |-> document.text,
                          metadata |-> [file_name |-> file_name]])
        ELSE [j \in 1..Len(acc) |->
                 IF j \in hit
                 THEN [text |-> document.text,
                       metadata |-> [file_name |-> file_name]]
                 ELSE acc[j]]

\* body of the for loop of combine_documents_by_file_name
CombineOne(acc, document) ==
    LET file_name == MetadataGetFileName(document.metadata)
        hit == {j \in 1..Len(acc) : acc[j].metadata.file_name = file_name}
    IN  IF hit = {}
        THEN Append(acc, [text |-> document.text,
                          metadata |-> [file_name |-> file_name]])
        ELSE [j \in 1..Len(acc) |->
                 IF j \in hit
                 THEN [text |-> acc[j].text \o document.text,
                       metadata |-> [file_name |-> file_name]]
                 ELSE acc[j]]

\* ------------------------------------------------------------ blob fetcher
\* reader.load_data([local_path]) of the i-th listed blob
ParseResult(i) ==
    << [text |-> <<i>>,
        metadata |-> [file_name |-> container[i].file_name, page |-> 1]] >>

Finished(i) == fut[i] \in {"done", "failed"}

Running == {i \in DOMAIN fut : fut[i] \in {"tmp", "downloaded"}}

Listings == UNION {[1..n -> [file_name : FileNames]] : n \in 0..MaxBlobs}

NoRequest == [pc |-> "idle", query |-> "", result |-> "unset", status |-> 0,
              failed |-> FALSE, afterFailure |-> FALSE]

Init ==
    /\ pc = "init"
    /\ dir \in {AbsentDir, EmptyDir, NonEmptyDir(StoredIndex)}
    /\ startDir = dir
    /\ container \in Listings
    /\ fut = <<>>
    /\ tempFiles = {}
    /\ completed = <<>>
    /\ k = 1
    /\ documents = <<>>
    /\ combined_documents = <<>>
    /\ enhanced = <<>>
    /\ index = NullIndex
    /\ fetchCalls = 0
    /\ combineCalls = 0
    /\ persistCalls = 0
    /\ steps = <<>>
    /\ failedStep = "none"
    /\ req = [r \in 1..MaxRequests |-> NoRequest]
    /\ history = <<>>
    /\ overlap = FALSE


\* ------------------------------------------------- Tools._initialize_index
\* variant: the emptiness test inverted (`not os.listdir(...)`)
UseLoadPath_Inverted(d) == d.state # "absent" /\ d.state # "nonempty"

\* os.path.exists(self.persist_dir) and os.listdir(self.persist_dir)
UseLoadPath(d) == d.state # "absent" /\ d.state = "nonempty"

\* variant: the error of a step is swallowed where it occurs and the build
\* carries on with the next step
StepOutcome_CarryOn(ok, name, next) ==
    /\ pc' = next
    /\ steps' = IF ok THEN Append(steps, name) ELSE steps
    /\ failedStep' = IF ok THEN failedStep ELSE name

\* outcome of one step inside the try block: it completes, or it raises and
\* control goes to the except clause
StepOutcome(ok, name, next) ==
    /\ pc' = IF ok THEN next ELSE "except"
    /\ steps' = IF ok THEN Append(steps, name) ELSE steps
    /\ failedStep' = IF ok THEN failedStep ELSE name

\* LOAD path: StorageContext.from_defaults + load_index_from_storage
LoadIndex ==
    /\ pc = "init"
    /\ UseLoadPath(dir)
    /\ \E ok \in BOOLEAN :
          /\ StepOutcome(ok, "load", "serving")
          /\ index' = IF ok THEN dir.index ELSE index
    /\ UNCHANGED <<dir, container, startDir, fut, tempFiles, completed, k, documents,
                   combined_documents, enhanced, fetchCalls, combineCalls,
                   persistCalls>>
    /\ UNCHANGED serveVars

\* BUILD path, DocumentEnhancer(...): the constructor raises on a bad
\* connection string, before load_and_enhance_documents is called
MakeEnhancer ==
    /\ pc = "init"
    /\ ~UseLoadPath(dir)
    /\ \E ok \in BOOLEAN : StepOutcome(ok, "enhancer", "fetch")
    /\ UNCHANGED <<dir, container, startDir, fut, tempFiles, completed, k, documents,
                   combined_documents, enhanced, index, fetchCalls,
                   combineCalls, persistCalls>>
    /\ UNCHANGED serveVars

\* load_and_enhance_documents: list_blobs and the submission of one
\* process_blob future per listed blob
SubmitBlobs ==
    /\ pc = "fetch"
    /\ fetchCalls' = fetchCalls + 1
    /\ \E ok \in BOOLEAN :
          /\ pc' = IF ok THEN "collect" ELSE "except"
          /\ failedStep' = IF ok THEN failedStep ELSE "fetch"
          /\ fut' = IF ok THEN [i \in 1..Len(container) |-> "queued"] ELSE fut
    /\ k' = 1
    /\ documents' = <<>>
    /\ UNCHANGED <<dir, container, startDir, tempFiles, completed, combined_documents,
                   enhanced, index, combineCalls, persistCalls, steps>>
    /\ UNCHANGED serveVars

\* a pool thread takes the future; download_blob_to_file creates the
\* temporary file (NamedTemporaryFile(delete=False))
WorkerStart(i) ==
    /\ pc \in {"collect", "shutdown"}
    /\ i \in DOMAIN fut
    /\ fut[i] = "queued"
    /\ Cardinality(Running) < max_workers
    /\ fut' = [fut EXCEPT ![i] = "tmp"]
    /\ tempFiles' = tempFiles \cup {i}
    /\ UNCHANGED <<pc, dir, container, startDir, completed, k, documents,
                   combined_documents, enhanced, index, fetchCalls,
                   combineCalls, persistCalls, steps, failedStep>>
    /\ UNCHANGED serveVars

\* download_blob().readall() and the write into the temporary file
WorkerDownload(i) ==
    /\ pc \in {"collect", "shutdown"}
    /\ i \in DOMAIN fut
    /\ fut[i] = "tmp"
    /\ \E ok \in BOOLEAN :
          /\ fut' = [fut EXCEPT ![i] = IF ok THEN "downloaded" ELSE "failed"]
          /\ completed' = IF ok THEN completed ELSE Append(completed, i)
    /\ UNCHANGED <<pc, dir, container, startDir, tempFiles, k, documents,
                   combined_documents, enhanced, index, fetchCalls,
                   combineCalls, persistCalls, steps, failedStep>>
    /\ UNCHANGED serveVars

\* reader.load_data, then os.remove(local_path) and the return; when
\* load_data raises the os.remove line is not reached
WorkerParse(i) ==
    /\ pc \in {"collect", "shutdown"}
    /\ i \in DOMAIN fut
    /\ fut[i] = "downloaded"
    /\ \E ok \in BOOLEAN :
          /\ fut' = [fut EXCEPT ![i] = IF ok THEN "done" ELSE "failed"]
          /\ tempFiles' = IF ok THEN tempFiles \ {i} ELSE tempFiles
    /\ completed' = Append(completed, i)
    /\ UNCHANGED <<pc, dir, container, startDir, k, documents, combined_documents,
                   enhanced, index, fetchCalls, combineCalls, persistCalls,
                   steps, failedStep>>
    /\ UNCHANGED serveVars

\* variant: the new fragments are put in front of the collected ones
ExtendDocuments_Prepend(docs, new) == new \o docs

\* documents.extend(future.result())
ExtendDocuments(docs, new) == docs \o new

\* for future in futures: future.result() of the k-th future, in the order
\* of submission; it returns the documents or re-raises the worker's error
CollectResult ==
    /\ pc = "collect"
    /\ k \in DOMAIN fut
    /\ Finished(k)
    /\ IF fut[k] = "done"
       THEN /\ documents' = ExtendDocuments(documents, ParseResult(k))
            /\ k' = k + 1
            /\ UNCHANGED <<pc, failedStep>>
       ELSE /\ pc' = "shutdown"
            /\ failedStep' = "fetch"
            /\ UNCHANGED <<documents, k>>
    /\ UNCHANGED <<dir, container, startDir, fut, tempFiles, completed,
                   combined_documents, enhanced, index, fetchCalls,
                   combineCalls, persistCalls, steps>>
    /\ UNCHANGED serveVars

\* the error leaves the with block: ThreadPoolExecutor.__exit__ waits for
\* every submitted future, then the error reaches _initialize_index
ExecutorShutdown ==
    /\ pc = "shutdown"
    /\ \A i \in DOMAIN fut : Finished(i)
    /\ pc' = "except"
    /\ UNCHANGED <<dir, container, startDir, fut, tempFiles, completed, k, documents,
                   combined_documents, enhanced, index, fetchCalls,
                   combineCalls, persistCalls, steps, failedStep>>
    /\ UNCHANGED serveVars

\* every future was collected: call combine_documents_by_file_name(documents)
CallCombine ==
    /\ pc = "collect"
    /\ k = Len(fut) + 1
    /\ pc' = "combine"
    /\ combineCalls' = combineCalls + 1
    /\ combined_documents' = <<>>
    /\ k' = 1
    /\ UNCHANGED <<dir, container, startDir, fut, tempFiles, completed, documents,
                   enhanced, index, fetchCalls, persistCalls, steps,
                   failedStep>>
    /\ UNCHANGED serveVars

\* one iteration of the for loop of combine_documents_by_file_name
CombineIterate ==
    /\ pc = "combine"
    /\ k \in 1..Len(documents)
    /\ combined_documents' = CombineOne(combined_documents, documents[k])
    /\ k' = k + 1
    /\ UNCHANGED <<pc, dir, container, startDir, fut, tempFiles, completed, documents,
                   enhanced, index, fetchCalls, combineCalls, persistCalls,
                   steps, failedStep>>
    /\ UNCHANGED serveVars

\* return list(combined_documents.values())
CombineReturn ==
    /\ pc = "combine"
    /\ k = Len(documents) + 1
    /\ enhanced' = combined_documents
    /\ pc' = "chunk"
    /\ steps' = Append(steps, "fetch")
    /\ UNCHANGED <<dir, container, startDir, fut, tempFiles, completed, k, documents,
                   combined_documents, index, fetchCalls, combineCalls,
                   persistCalls, failedStep>>
    /\ UNCHANGED serveVars

\* node_parser.get_nodes_from_documents(documents)
ChunkDocuments ==
    /\ pc = "chunk"
    /\ \E ok \in BOOLEAN : StepOutcome(ok, "chunk", "enrich")
    /\ UNCHANGED <<dir, container, startDir, fut, tempFiles, completed, k, documents,
                   combined_documents, enhanced, index, fetchCalls,
                   combineCalls, persistCalls>>
    /\ UNCHANGED serveVars

\* await pipeline.arun(nodes=self.nodes, ...)
EnrichNodes ==
    /\ pc = "enrich"
    /\ \E ok \in BOOLEAN : StepOutcome(ok, "enrich", "build")
    /\ UNCHANGED <<dir, container, startDir, fut, tempFiles, completed, k, documents,
                   combined_documents, enhanced, index, fetchCalls,
                   combineCalls, persistCalls>>
    /\ UNCHANGED serveVars

\* VectorStoreIndex(self.nodes + nodes1, use_async=True)
BuildIndex ==
    /\ pc = "build"
    /\ \E ok \in BOOLEAN : StepOutcome(ok, "index", "persist")
    /\ UNCHANGED <<dir, container, startDir, fut, tempFiles, completed, k, documents,
                   combined_documents, enhanced, index, fetchCalls,
                   combineCalls, persistCalls>>
    /\ UNCHANGED serveVars

\* the locals of _initialize_index and of load_and_enhance_documents (the
\* futures, the collected fragments, the combiner's dict) end with the call
ReturnFromInitialize ==
    /\ fut' = <<>>
    /\ completed' = <<>>
    /\ k' = 1
    /\ documents' = <<>>
    /\ combined_documents' = <<>>
    /\ enhanced' = <<>>

\* index.storage_context.persist(persist_dir=...) and return index
PersistIndex ==
    /\ pc = "persist"
    /\ persistCalls' = persistCalls + 1
    /\ \E ok \in BOOLEAN :
          /\ StepOutcome(ok, "persist", "serving")
          /\ dir' = IF ok THEN NonEmptyDir([kind |-> "index", docs |-> enhanced])
                    ELSE dir
          /\ index' = IF ok THEN [kind |-> "index", docs |-> enhanced]
                      ELSE index
          /\ IF ok THEN ReturnFromInitialize
             ELSE UNCHANGED <<fut, completed, k, documents,
                              combined_documents, enhanced>>
    /\ UNCHANGED <<container, startDir, tempFiles, fetchCalls, combineCalls>>
    /\ UNCHANGED serveVars

\* except Exception: logger.error(...); the coroutine returns None
HandleInitError ==
    /\ pc = "except"
    /\ index' = NullIndex
    /\ pc' = "serving"
    /\ ReturnFromInitialize
    /\ UNCHANGED <<dir, container, startDir, tempFiles, fetchCalls,
                   combineCalls, persistCalls, steps, failedStep>>
    /\ UNCHANGED serveVars

\* ------------------------------------------------------- /query and Tools
Queries == {"", "q"}

InTool(r) == req[r].pc \in {"tool", "chat", "llm"}

\* variant: a null index still yields an engine
IndexUsable_Always(ix) == TRUE

\* self.index.as_chat_engine(...) on Tools.index: None has no such attribute
IndexUsable(ix) == ix.kind # "null"

\* variant: the turn is inserted at the head of the history
PutTurn_AtHead(h, turn) == <<turn>> \o h

\* chat memory put of one turn (memory=self.memory, chat_store_key "user1")
PutTurn(h, turn) == Append(h, turn)

\* except Exception in query_document_tool: log, fall off the end (None)
ToolExcept(r) ==
    [req EXCEPT ![r].pc = "respond", ![r].result = "None", ![r].failed = TRUE]

\* variant: the endpoint answers 200 whatever the tool returned
ResponseStatus_AlwaysOk(result) == 200

\* query_endpoint line 72-76: agent_response.response, AttributeError on None
\* is caught by the endpoint's except and answered with 500
ResponseStatus(result) == IF result = "None" THEN 500 ELSE 200

\* query_endpoint up to the call of tools.query_document_tool
Receive(r) ==
    /\ pc = "serving"
    /\ req[r].pc = "idle"
    /\ \E q \in Queries :
          IF q = ""
          THEN /\ req' = [req EXCEPT ![r].pc = "done", ![r].query = q,
                                     ![r].status = 400]
               /\ UNCHANGED overlap
          ELSE /\ req' = [req EXCEPT ![r].pc = "tool", ![r].query = q,
                             ![r].afterFailure =
                                 \E o \in DOMAIN req : /\ req[o].pc = "done"
                                                       /\ req[o].failed]
               /\ overlap' = (overlap \/ \E o \in DOMAIN req : InTool(o))
    /\ UNCHANGED history
    /\ UNCHANGED startupVars

\* engine = self.index.as_chat_engine(...)
AsChatEngine(r) ==
    /\ pc = "serving"
    /\ req[r].pc = "tool"
    /\ \E ok \in BOOLEAN :
          req' = IF IndexUsable(index) /\ ok
                 THEN [req EXCEPT ![r].pc = "chat"]
                 ELSE ToolExcept(r)
    /\ UNCHANGED <<history, overlap>>
    /\ UNCHANGED startupVars

\* engine.chat(query), first part: query rewriting and retrieval, then the
\* user turn is put into the shared memory
ChatRetrieve(r) ==
    /\ pc = "serving"
    /\ req[r].pc = "chat"
    /\ \E ok \in BOOLEAN :
          IF ok
          THEN /\ req' = [req EXCEPT ![r].pc = "llm"]
               /\ history' = PutTurn(history, [q |-> r, role |-> "user"])
          ELSE /\ req' = ToolExcept(r)
               /\ UNCHANGED history
    /\ UNCHANGED overlap
    /\ UNCHANGED startupVars

\* engine.chat(query), second part: the LLM call, then the assistant turn is
\* put into the shared memory and the response returned
ChatAnswer(r) ==
    /\ pc = "serving"
    /\ req[r].pc = "llm"
    /\ \E ok \in BOOLEAN :
          IF ok
          THEN /\ req' = [req EXCEPT ![r].pc = "respond",
                                     ![r].result = "answer"]
               /\ history' = PutTurn(history, [q |-> r, role |-> "assistant"])
          ELSE /\ req' = ToolExcept(r)
               /\ UNCHANGED history
    /\ UNCHANGED overlap
    /\ UNCHANGED startupVars

\* query_endpoint after the call: the JSON answer or the 500 error response
Respond(r) ==
    /\ pc = "serving"
    /\ req[r].pc = "respond"
    /\ req' = [req EXCEPT ![r].pc = "done",
                          ![r].status = ResponseStatus(req[r].result)]
    /\ UNCHANGED <<history, overlap>>
    /\ UNCHANGED startupVars

\* ---------------------------------------------------------- specifications
Next ==
    \/ LoadIndex
    \/ MakeEnhancer
    \/ SubmitBlobs
    \/ \E i \in 1..MaxBlobs : WorkerStart(i)
    \/ \E i \in 1..MaxBlobs : WorkerDownload(i)
    \/ \E i \in 1..MaxBlobs : WorkerParse(i)
    \/ CollectResult
    \/ ExecutorShutdown
    \/ CallCombine
    \/ CombineIterate
    \/ CombineReturn
    \/ ChunkDocuments
    \/ EnrichNodes
    \/ BuildIndex
    \/ PersistIndex
    \/ HandleInitError
    \/ \E r \in 1..MaxRequests : Receive(r)
    \/ \E r \in 1..MaxRequests : AsChatEngine(r)
    \/ \E r \in 1..MaxRequests : ChatRetrieve(r)
    \/ \E r \in 1..MaxRequests : ChatAnswer(r)
    \/ \E r \in 1..MaxRequests : Respond(r)

Spec == Init /\ [][Next]_vars

\* the combiner on its own: a direct call of the static method
\* combine_documents_by_file_name on an arbitrary list of fragments
Metadatas ==
    { [file_name |-> "a", page |-> 1], [file_name |-> "b"],
      [file_name |-> UnknownTitle], [page |-> 1] }

Texts == {<<1>>, <<2>>}

Fragments == [text : Texts, metadata : Metadatas]

FragmentLists == UNION {[1..n -> Fragments] : n \in 0..MaxLen}

InitCombine ==
    /\ pc = "combine"
    /\ documents \in FragmentLists
    /\ combined_documents = <<>>
    /\ k = 1
    /\ combineCalls = 1
    /\ dir = AbsentDir
    /\ startDir = dir
    /\ container = <<>>
    /\ fut = <<>>
    /\ tempFiles = {}
    /\ completed = <<>>
    /\ enhanced = <<>>
    /\ index = NullIndex
    /\ fetchCalls = 0
    /\ persistCalls = 0
    /\ steps = <<>>
    /\ failedStep = "none"
    /\ req = [r \in 1..MaxRequests |-> NoRequest]
    /\ history = <<>>
    /\ overlap = FALSE

NextCombine ==
    \/ CombineIterate
    \/ CombineReturn

SpecCombine == InitCombine /\ [][NextCombine]_vars


\* ------------------------------------------------------------- properties
Range(f) == {f[i] : i \in DOMAIN f}

StartupOver == pc = "serving"

BuildSteps == <<"enhancer", "fetch", "chunk", "enrich", "index">>

IsPrefix(p, q) == Len(p) <= Len(q) /\ \A i \in 1..Len(p) : p[i] = q[i]

\* C1: when the persistence directory is found non-empty at startup, the LOAD
\* path is taken: load_and_enhance_documents, the combiner, the blob workers
\* and persist are never invoked, the directory is left as found and a
\* successful load yields the stored index unchanged.
C1_LoadNeverIngests ==
    startDir.state = "nonempty" =>
        /\ fetchCalls = 0
        /\ persistCalls = 0
        /\ combineCalls = 0
        /\ fut = <<>>
        /\ tempFiles = {}
        /\ dir = startDir
        /\ (StartupOver /\ failedStep = "none" => index = startDir.index)

C1_Witness ==
    /\ startDir.state = "nonempty"
    /\ StartupOver
    /\ steps = <<"load">>
    /\ index = StoredIndex

\* C2 as stated: on the BUILD path fetch is invoked exactly once; on success
\* persist is invoked exactly once, after all other steps; when any step
\* fails persist is invoked zero times.
C2_Original ==
    (startDir.state # "nonempty" /\ StartupOver) =>
        /\ fetchCalls = 1
        /\ (failedStep = "none" =>
               persistCalls = 1 /\ steps = Append(BuildSteps, "persist"))
        /\ (failedStep # "none" => persistCalls = 0)

\* C2 amended: on the BUILD path fetch is invoked at most once, and exactly
\* once unless the construction of the DocumentEnhancer raised; on success
\* persist is invoked exactly once; persist is only ever invoked after
\* fetch, chunking, enrichment and index construction completed, in that
\* order; when a step before persist fails persist is invoked zero times,
\* and when persist itself raises it was invoked once.
C2_BuildPath ==
    startDir.state # "nonempty" =>
        /\ fetchCalls <= 1
        /\ persistCalls <= 1
        /\ (failedStep = "enhancer" => fetchCalls = 0)
        /\ (StartupOver /\ failedStep # "enhancer" => fetchCalls = 1)
        /\ (StartupOver /\ failedStep = "none" =>
               persistCalls = 1 /\ steps = Append(BuildSteps, "persist"))
        /\ (persistCalls = 1 => IsPrefix(BuildSteps, steps))
        /\ (failedStep \in {"enhancer", "fetch", "chunk", "enrich", "index"}
               => persistCalls = 0)
        /\ (failedStep = "persist" => persistCalls = 1)

C2_Witness ==
    /\ startDir.state = "empty"
    /\ StartupOver
    /\ failedStep = "none"
    /\ fetchCalls = 1
    /\ persistCalls = 1
    /\ Len(container) = 2
    /\ dir.state = "nonempty"

\* the file_name values that occur in the input, as the claim counts them
NamesOccurring(docs) ==
    {docs[i].metadata.file_name :
        i \in {j \in 1..Len(docs) : "file_name" \in DOMAIN docs[j].metadata}}

RECURSIVE TextOfNamed(_, _)
TextOfNamed(docs, n) ==
    IF docs = <<>> THEN <<>>
    ELSE (IF /\ "file_name" \in DOMAIN Head(docs).metadata
             /\ Head(docs).metadata.file_name = n
          THEN Head(docs).text ELSE <<>>) \o TextOfNamed(Tail(docs), n)

\* the name a fragment is filed under: its file_name, "Unknown Title" if none
FiledUnder(d) ==
    IF "file_name" \in DOMAIN d.metadata THEN d.metadata.file_name
    ELSE "Unknown Title"

RECURSIVE TextFiledUnder(_, _)
TextFiledUnder(docs, n) ==
    IF docs = <<>> THEN <<>>
    ELSE (IF FiledUnder(Head(docs)) = n THEN Head(docs).text ELSE <<>>)
         \o TextFiledUnder(Tail(docs), n)

CombinerReturned == pc = "chunk"

\* C3 as stated: one Combined Document per distinct file_name value in the
\* input, its text the concatenation in input order of the fragments with
\* that name, its metadata only file_name.
C3_Original ==
    CombinerReturned =>
        /\ {enhanced[j].metadata.file_name : j \in 1..Len(enhanced)}
               = NamesOccurring(documents)
        /\ Len(enhanced) = Cardinality(NamesOccurring(documents))
        /\ \A j \in 1..Len(enhanced) :
              /\ enhanced[j].text
                     = TextOfNamed(documents, enhanced[j].metadata.file_name)
              /\ DOMAIN enhanced[j].metadata = {"file_name"}

\* C3 amended: a fragment without a file_name key counts as a fragment named
\* "Unknown Title". With that, the combiner returns exactly one Combined
\* Document per distinct name, its text is the concatenation without
\* separator, in input order, of the texts of the fragments filed under that
\* name, and its metadata holds only file_name.
C3_Combiner ==
    CombinerReturned =>
        /\ {enhanced[j].metadata.file_name : j \in 1..Len(enhanced)}
               = {FiledUnder(documents[i]) : i \in 1..Len(documents)}
        /\ Len(enhanced)
               = Cardinality({FiledUnder(documents[i]) : i \in 1..Len(documents)})
        /\ \A j \in 1..Len(enhanced) :
              /\ enhanced[j].text
                     = TextFiledUnder(documents, enhanced[j].metadata.file_name)
              /\ DOMAIN enhanced[j].metadata = {"file_name"}

C3_Witness ==
    /\ CombinerReturned
    /\ Len(documents) = 3
    /\ Len(enhanced) = 2
    /\ \E i, j \in 1..Len(documents) :
          /\ i < j
          /\ "file_name" \notin DOMAIN documents[i].metadata
          /\ "file_name" \in DOMAIN documents[j].metadata
          /\ documents[j].metadata.file_name = "Unknown Title"
    /\ \E j \in 1..Len(enhanced) :
          /\ enhanced[j].metadata.file_name = "Unknown Title"
          /\ Len(enhanced[j].text) = 2


\* load_and_enhance_documents was called and has ended (returned or raised);
\* the futures and the collected fragments are visible until startup is over
FetchEnded ==
    /\ fetchCalls = 1
    /\ pc \in {"chunk", "enrich", "build", "persist", "except", "serving"}

FetchReturned == FetchEnded /\ "fetch" \in Range(steps)

\* C4: a download or parse failure of one blob does not abort the batch:
\* when some blob failed, load_and_enhance_documents still returns, and the
\* fragments of every blob that succeeded were collected and passed to the
\* combiner.
C4_FailureIsolated ==
    (FetchEnded /\ \E i \in DOMAIN fut : fut[i] = "failed") =>
        /\ FetchReturned
        /\ combineCalls = 1
        /\ \A i \in DOMAIN fut :
              fut[i] = "done" => ParseResult(i)[1] \in Range(documents)

\* C5: the temporary file of a blob no longer exists once its process_blob
\* has exited, on success and on failure, and none remains after
\* load_and_enhance_documents has ended.
C5_NoTempFileLeak ==
    /\ \A i \in DOMAIN fut : Finished(i) => i \notin tempFiles
    /\ (FetchEnded => tempFiles = {})

StartupFailed == failedStep # "none"

\* C6: when a step of the BUILD or LOAD path raises, the error does not
\* leave _initialize_index (control only goes to its except clause and on to
\* serving), Tools.index is null once startup is over, no call of
\* query_document_tool returns an answer (each returns None and its request
\* is answered 500), and nothing sets the index afterwards.
C6_FailedStartupState ==
    StartupFailed =>
        /\ pc \in {"shutdown", "except", "serving"}
        /\ (StartupOver => index = NullIndex)
        /\ \A r \in DOMAIN req :
              /\ req[r].result # "answer"
              /\ req[r].pc = "respond" => req[r].result = "None"
              /\ (req[r].pc = "done" /\ req[r].query # "") =>
                     req[r].result = "None" /\ req[r].status = 500
        /\ history = <<>>

C6_NullIndexStays ==
    [](C6_FailedStartupState)
        /\ [][StartupOver => (StartupOver' /\ index' = index)]_vars

C6_Witness ==
    /\ StartupFailed
    /\ StartupOver
    /\ index = NullIndex
    /\ \A r \in DOMAIN req : req[r].pc = "done" /\ req[r].status = 500

\* C7: an error in a stage of a query never escapes query_document_tool: the
\* call returns None, the request is answered with the 500 error response,
\* the failed query leaves the index as it was and the service in the
\* serving state, and a query whose pipeline does not fail is answered (200
\* with the answer), also after another query failed.
C7_QueryState ==
    \A r \in DOMAIN req :
        /\ req[r].failed =>
               req[r].result = "None" /\ req[r].pc \in {"respond", "done"}
        /\ (req[r].pc = "done" /\ req[r].failed) => req[r].status = 500
        /\ (req[r].pc = "done" /\ req[r].query # "" /\ ~req[r].failed) =>
               req[r].status = 200 /\ req[r].result = "answer"
        /\ req[r].pc # "idle" => StartupOver

C7_QueryFailureContained ==
    [](C7_QueryState)
        /\ [][(\E r \in DOMAIN req : req'[r].failed /\ ~req[r].failed)
                 => (index' = index /\ pc' = pc /\ dir' = dir)]_vars

C7_Witness ==
    \E r1, r2 \in DOMAIN req :
        /\ req[r1].pc = "done" /\ req[r1].failed /\ req[r1].status = 500
        /\ req[r2].afterFailure
        /\ req[r2].pc = "done" /\ req[r2].status = 200
        /\ index # NullIndex

\* C8: with an empty blob container load_and_enhance_documents returns an
\* empty list and the build treats it as a failure: no index is constructed
\* over zero chunks and nothing is persisted.
C8_EmptyContainerIsFailure ==
    (startDir.state # "nonempty" /\ container = <<>>) =>
        /\ (FetchReturned => enhanced = <<>>)
        /\ pc # "persist"
        /\ persistCalls = 0
        /\ index = NullIndex
        /\ dir = startDir

\* position of x in a sequence without repetitions (0 when absent)
Pos(seq, x) ==
    IF x \in Range(seq) THEN CHOOSE p \in 1..Len(seq) : seq[p] = x ELSE 0

TextOfFile(n) ==
    LET hit == {j \in 1..Len(enhanced) : enhanced[j].metadata.file_name = n}
    IN  IF hit = {} THEN <<>> ELSE enhanced[CHOOSE j \in hit : TRUE].text

\* C9 as stated: fragments of one file_name coming from different blobs are
\* concatenated in the order in which their futures completed.
C9_Original ==
    FetchReturned =>
        \A i, j \in DOMAIN fut :
            (/\ i # j
             /\ container[i].file_name = container[j].file_name
             /\ Pos(completed, j) < Pos(completed, i)) =>
                Pos(TextOfFile(container[i].file_name), j)
                    < Pos(TextOfFile(container[i].file_name), i)

\* C9 amended: fragments of one file_name coming from different blobs are
\* concatenated in the order of the blob listing (the order in which the
\* futures were submitted), whatever the order in which the workers
\* finished: the combined texts are a function of the listing alone.
C9_ListingOrder ==
    (FetchReturned /\ ~StartupOver) =>
        /\ {enhanced[j].metadata.file_name : j \in 1..Len(enhanced)}
               = {container[i].file_name : i \in 1..Len(container)}
        /\ \A j \in 1..Len(enhanced) :
              LET t == enhanced[j].text IN
              /\ Range(t) = {i \in 1..Len(container) :
                                container[i].file_name
                                    = enhanced[j].metadata.file_name}
              /\ \A p, q \in 1..Len(t) : p < q => t[p] < t[q]

C9_Witness ==
    /\ FetchReturned
    /\ Len(container) >= 2
    /\ container[1].file_name = container[2].file_name
    /\ Pos(completed, 2) < Pos(completed, 1)
    /\ Pos(TextOfFile(container[1].file_name), 1)
           < Pos(TextOfFile(container[1].file_name), 2)

\* an assistant turn that does not directly follow the user turn of its own
\* query
TurnsCorrupted ==
    \E p \in 1..Len(history) :
        /\ history[p].role = "assistant"
        /\ (p = 1 \/ history[p - 1] # [q |-> history[p].q, role |-> "user"])

\* C10: every query writes its turns into the one shared history (no
\* per-request buffer, no lock), and the turn ordering is corrupted only if
\* two query_document_tool calls were in flight together; the witness is the
\* reachable interleaving user1, user2, answer1, answer2.
C10_SharedHistory ==
    /\ \A r \in DOMAIN req :
          req[r].result = "answer" =>
              /\ [q |-> r, role |-> "user"] \in Range(history)
              /\ [q |-> r, role |-> "assistant"] \in Range(history)
    /\ (TurnsCorrupted => overlap)

C10_Witness ==
    /\ Len(history) = 4
    /\ history[1].role = "user"
    /\ history[2].role = "user"
    /\ history[3] = [q |-> history[1].q, role |-> "assistant"]
    /\ history[4] = [q |-> history[2].q, role |-> "assistant"]
    /\ TurnsCorrupted

====
